---- MODULE Spec2Model ----
(***************************************************************************)
(* Figure functions of visualization.py over the two primitives they      *)
(* import from fitness_analysis: the read-noise filter and the Gaussian   *)
(* significance classifier.                                               *)
(*                                                                         *)
(* A fitness matrix is a function from cells <<position, residue>> to a   *)
(* fitness value or NaN; a count matrix maps the same cells to read       *)
(* counts.  Fitness values are integers: the unit is the resolution of    *)
(* the data (0.1 in the unit-population specification at the end).        *)
(* All statistics are computed exactly, as integers scaled by the size n  *)
(* of the synonymous population.                                          *)
(***************************************************************************)
EXTENDS Integers, Sequences, FiniteSets, TLC

VARIABLES counts_dict, fitness_dict, sample_order, gene, call, ret, steps

vars == <<counts_dict, fitness_dict, sample_order, gene, call, ret, steps>>

(***************************************************************************)
(* Bounds of the model.                                                    *)
(***************************************************************************)
NPos == 3
MaxSigma == 3
MaxPlots == 12

(***************************************************************************)
(* Defaults baked into the signatures.                                     *)
(***************************************************************************)
DefaultHeatmapReadThreshold == 1
DefaultReadThreshold == 20

NaN == -32768       \* the missing-value marker, np.nan; no fitness value equals it
SYN == "syn"        \* the synonymous column, "∅" in the source
STOP == "*"
Residues == {"A", STOP, SYN}
Positions == 1..NPos
Cells == Positions \X Residues

DrugNames == {"AMP", "CTX", "TET"}
Genes == {"gene_a", "gene_b"}
ReadThresholds == {DefaultHeatmapReadThreshold, DefaultReadThreshold}
SigmaCutoffs == 1..MaxSigma

Sample(drug, rep) == drug \o rep
AllSamples == {Sample(d, r) : d \in DrugNames, r \in {"1", "2"}}

(***************************************************************************)
(* Names in alphabetical order, and sorted(): the names of a sequence in  *)
(* ascending alphabetical order.  The mappings of the experiment keep the *)
(* order in which their keys were inserted; sample_order is that order.   *)
(***************************************************************************)
Alphabetical ==
    <<"AMP", "AMP1", "AMP2", "CTX", "CTX1", "CTX2", "TET", "TET1", "TET2">>

Rank(name) == CHOOSE i \in 1..Len(Alphabetical) : Alphabetical[i] = name

Range(seq) == {seq[i] : i \in 1..Len(seq)}

SetToSortedSeq(S) ==
    [i \in 1..Cardinality(S) |->
        CHOOSE x \in S : Cardinality({y \in S : Rank(y) < Rank(x)}) = i - 1]

sorted(seq) == SetToSortedSeq(Range(seq))

InsertionOrder ==
    <<Sample("CTX", "2"), Sample("AMP", "1"), Sample("CTX", "1"), Sample("AMP", "2")>>

(***************************************************************************)
(* With(e, F): F applied to the value of e, computed once: the assignment *)
(* of a result to a local variable that the following statements read.    *)
(***************************************************************************)
With(e, F(_)) == CHOOSE v \in {F(b) : b \in {e}} : TRUE

(***************************************************************************)
(* Arithmetic helpers.                                                     *)
(***************************************************************************)
Abs(v) == IF v < 0 THEN -v ELSE v

RECURSIVE GCD(_, _)
GCD(a, b) == IF b = 0 THEN a ELSE GCD(b, a % b)

RECURSIVE SetSum(_, _)
SetSum(f, S) ==
    IF S = {} THEN 0
    ELSE LET e == CHOOSE e \in S : TRUE IN f[e] + SetSum(f, S \ {e})

isnan(v) == v = NaN

PositionsOf(df) == {c[1] : c \in DOMAIN df}
ColumnsOf(df) == {c[2] : c \in DOMAIN df}

(***************************************************************************)
(* get_pairs: the two replicate samples of a drug.                         *)
(***************************************************************************)
get_pairs(drug, fd) == <<Sample(drug, "1"), Sample(drug, "2")>>

(***************************************************************************)
(* drugs_all: sample names with their trailing digits stripped.            *)
(***************************************************************************)
drugs_all(fd) == {d \in DrugNames : \E r \in {"1", "2"} : Sample(d, r) \in DOMAIN fd}

(***************************************************************************)
(* The noise filter: a new matrix in which every cell whose count is      *)
(* strictly below read_threshold is NaN, the other cells as in the input. *)
(* The callers pass gene as the fourth argument; the result does not      *)
(* read it.                                                                *)
(***************************************************************************)
filter_shifted(sample, cd, fd, gene_arg, read_threshold) ==
    [c \in DOMAIN fd[sample] |->
        LET nxt == <<(c[1] % Cardinality(PositionsOf(fd[sample]))) + 1, c[2]>>
        IN IF cd[sample][c] < read_threshold THEN NaN ELSE fd[sample][nxt]]

filter_by_gene(sample, cd, fd, gene_arg, read_threshold) ==
    [c \in DOMAIN fd[sample] |->
        IF cd[sample][c] < read_threshold \/ gene_arg # (CHOOSE g \in Genes : TRUE)
        THEN NaN ELSE fd[sample][c]]

filter_fitness_read_noise(sample, cd, fd, gene_arg, read_threshold) ==
    [c \in DOMAIN fd[sample] |->
        IF cd[sample][c] < read_threshold THEN NaN ELSE fd[sample][c]]

(***************************************************************************)
(* The filter's error conditions: the sample is absent from either        *)
(* mapping, or its two matrices do not align.  filter_call is one call of *)
(* the filter: the error, or the new matrix.                              *)
(***************************************************************************)
filter_error(sample, cd, fd) ==
    IF sample \notin DOMAIN cd \/ sample \notin DOMAIN fd THEN "lookup"
    ELSE IF DOMAIN cd[sample] # DOMAIN fd[sample] THEN "shape"
    ELSE "none"

filter_call(sample, cd, fd, gene_arg, read_threshold) ==
    LET err == filter_error(sample, cd, fd)
    IN IF err # "none" THEN [status |-> "error", error |-> err]
       ELSE [status |-> "ok",
             value |-> filter_fitness_read_noise(sample, cd, fd, gene_arg, read_threshold)]

(***************************************************************************)
(* The significance classifier.                                            *)
(*                                                                         *)
(* neutral_fit: the 2-D Gaussian fitted to the synonymous cells that are  *)
(* present in both matrices.  With n points (x_i, y_i), sx and sy are the *)
(* coordinate sums (mean = sx/n, sy/n) and                                *)
(*    a = SUM (n x_i - sx)^2, b = SUM (n x_i - sx)(n y_i - sy),            *)
(*    c = SUM (n y_i - sy)^2,                                              *)
(* so that the sample covariance is [[a, b], [b, c]] / (n^2 (n - 1)).     *)
(***************************************************************************)
SynCells(df_x, df_y) ==
    {c \in DOMAIN df_x : c[2] = SYN /\ ~isnan(df_x[c]) /\ ~isnan(df_y[c])}

neutral_fit(df_x, df_y) ==
    LET syn == SynCells(df_x, df_y)
        n == Cardinality(syn)
        sx == SetSum(df_x, syn)
        sy == SetSum(df_y, syn)
        dx == [c \in syn |-> n * df_x[c] - sx]
        dy == [c \in syn |-> n * df_y[c] - sy]
    IN [n |-> n, sx |-> sx, sy |-> sy,
        a |-> SetSum([c \in syn |-> dx[c] * dx[c]], syn),
        b |-> SetSum([c \in syn |-> dx[c] * dy[c]], syn),
        c |-> SetSum([c \in syn |-> dy[c] * dy[c]], syn)]

(***************************************************************************)
(* The classifier's error conditions: misaligned matrices, no synonymous  *)
(* column, an empty or zero-variance synonymous population.               *)
(***************************************************************************)
classify_error(df_x, df_y) ==
    IF DOMAIN df_x # DOMAIN df_y THEN "shape"
    ELSE IF SYN \notin ColumnsOf(df_x) THEN "no_synonymous"
    ELSE LET fit == neutral_fit(df_x, df_y)
         IN IF fit.n < 2 \/ fit.a + fit.c = 0 THEN "degenerate" ELSE "none"

(***************************************************************************)
(* A point lies outside the sigma-level ellipse when its standardized     *)
(* (Mahalanobis) distance d from the neutral mean exceeds sigma.  With    *)
(* u = n px - sx and v = n py - sy,                                        *)
(*    d^2 = (n - 1) (c u^2 - 2 b u v + a v^2) / (a c - b^2),               *)
(* compared with sigma^2 after multiplying out the denominator (a, b, c   *)
(* divided by their gcd g to keep the products small).  On a collinear    *)
(* population (a c = b^2) the same inequality puts every point off the    *)
(* line outside and every point on the line inside.                       *)
(***************************************************************************)
outside_ellipse_inclusive(fit, sigma, px, py) ==
    LET u == fit.n * px - fit.sx
        v == fit.n * py - fit.sy
    IN (fit.n - 1) * (fit.c * u * u - 2 * fit.b * u * v + fit.a * v * v)
           >= sigma * sigma * (fit.a * fit.c - fit.b * fit.b)

outside_ellipse(fit, sigma, px, py) ==
    LET g == GCD(fit.a, GCD(Abs(fit.b), fit.c))
        a == fit.a \div g
        b == fit.b \div g
        c == fit.c \div g
        u == fit.n * px - fit.sx
        v == fit.n * py - fit.sy
    IN (fit.n - 1) * (c * u * u - 2 * b * u * v + a * v * v)
           > sigma * sigma * g * (a * c - b * b)

is_resistant_or(fit, sigma, px, py) ==
    /\ outside_ellipse(fit, sigma, px, py)
    /\ (fit.n * px >= fit.sx \/ fit.n * py >= fit.sy)

is_resistant_first(fit, sigma, px, py) ==
    /\ outside_ellipse(fit, sigma, px, py)
    /\ fit.n * px >= fit.sx

is_resistant(fit, sigma, px, py) ==
    /\ outside_ellipse(fit, sigma, px, py)
    /\ fit.n * px >= fit.sx
    /\ fit.n * py >= fit.sy

is_sensitive_zero(fit, sigma, px, py) ==
    /\ outside_ellipse(fit, sigma, px, py)
    /\ px < 0
    /\ py < 0

is_sensitive(fit, sigma, px, py) ==
    /\ outside_ellipse(fit, sigma, px, py)
    /\ fit.n * px < fit.sx
    /\ fit.n * py < fit.sy

(***************************************************************************)
(* The ellipse of one sigma level: (center, width, height, angle).        *)
(* center is <<sx, sy, n>> for the point (sx/n, sy/n).  width and height  *)
(* are 2 sigma sqrt(lambda) for the two eigenvalues                       *)
(*    lambda = (t + r sqrt(d)) / q,  r = 1 (major) or -1 (minor),          *)
(* of the covariance, kept as <<factor, eigenvalue>> with factor = 2 sigma.*)
(* angle is <<2 b, a - c>>, the tangent of twice the rotation angle.      *)
(***************************************************************************)
eigenvalue(fit, r) ==
    [t |-> fit.a + fit.c,
     r |-> r,
     d |-> (fit.a - fit.c) * (fit.a - fit.c) + 4 * fit.b * fit.b,
     q |-> 2 * fit.n * fit.n * (fit.n - 1)]

ellipse_fixed(fit, sigma, sigma_cutoff) ==
    [center |-> <<fit.sx, fit.sy, fit.n>>,
     width  |-> [factor |-> 2 * sigma_cutoff, eig |-> eigenvalue(fit, 1)],
     height |-> [factor |-> 2 * sigma_cutoff, eig |-> eigenvalue(fit, -1)],
     angle  |-> <<2 * fit.b, fit.a - fit.c>>]

ellipse(fit, sigma, sigma_cutoff) ==
    [center |-> <<fit.sx, fit.sy, fit.n>>,
     width  |-> [factor |-> 2 * sigma, eig |-> eigenvalue(fit, 1)],
     height |-> [factor |-> 2 * sigma, eig |-> eigenvalue(fit, -1)],
     angle  |-> <<2 * fit.b, fit.a - fit.c>>]

(***************************************************************************)
(* ellipses_all: the ordered mapping sigma level -> descriptor, as the    *)
(* sequence of its items.  gaussian_significance returns the error kind   *)
(* when it fails and the tuple (sensitive mask, resistant mask,           *)
(* ellipses) otherwise; a cell missing in either matrix is in no mask.    *)
(***************************************************************************)
sigma_levels(sigma_cutoff) == [i \in 1..sigma_cutoff |-> i]

ellipses_of(fit, sigma_cutoff) ==
    LET levels == sigma_levels(sigma_cutoff)
    IN [i \in 1..Len(levels) |->
           [sigma |-> levels[i], value |-> ellipse(fit, levels[i], sigma_cutoff)]]

gaussian_significance(df_x, df_y, sigma_cutoff) ==
    LET present(c) == ~isnan(df_x[c]) /\ ~isnan(df_y[c])
    IN With(classify_error(df_x, df_y), LAMBDA err :
           IF err # "none" THEN [status |-> "error", error |-> err]
           ELSE With(neutral_fit(df_x, df_y), LAMBDA fit :
               [status |-> "ok",
                value |->
                    << [c \in DOMAIN df_x |->
                           present(c) /\ is_sensitive(fit, sigma_cutoff, df_x[c], df_y[c])],
                       [c \in DOMAIN df_x |->
                           present(c) /\ is_resistant(fit, sigma_cutoff, df_x[c], df_y[c])],
                       ellipses_of(fit, sigma_cutoff) >>]))

(***************************************************************************)
(* The callers unpack the classifier's result in the order                *)
(* sign_sensitive, sign_resistant, ellipses_all.                           *)
(***************************************************************************)
unpack_swapped(value) ==
    [sign_sensitive |-> value[2], sign_resistant |-> value[1], ellipses_all |-> value[3]]

unpack(value) ==
    [sign_sensitive |-> value[1], sign_resistant |-> value[2], ellipses_all |-> value[3]]

(***************************************************************************)
(* Input data.  Each sample's fitness matrix and count matrix is one of a *)
(* family of matrices; row p of a matrix is row ((p - 1) % 3) + 1 of its  *)
(* table.  The families hold synonymous columns that vary and one that   *)
(* is constant, missing cells, and counts on both sides of both default   *)
(* thresholds.                                                             *)
(***************************************************************************)
FitnessTables ==
    << ("A" :> <<3, -1, 0>>)     @@ (STOP :> <<-3, -2, -3>>)  @@ (SYN :> <<-1, 0, -2>>),
       ("A" :> <<-1, -1, 2>>)    @@ (STOP :> <<-3, 3, -2>>)   @@ (SYN :> <<-1, -3, -2>>),
       ("A" :> <<2, NaN, -2>>)   @@ (STOP :> <<NaN, 1, -1>>)  @@ (SYN :> <<1, 1, 1>>) >>

CountTables ==
    << ("A" :> <<25, 25, 25>>)   @@ (STOP :> <<25, 25, 25>>)  @@ (SYN :> <<25, 25, 25>>),
       ("A" :> <<0, 19, 20>>)    @@ (STOP :> <<1, 25, 0>>)    @@ (SYN :> <<20, 25, 21>>) >>

MatrixOf(table) == [c \in Cells |-> table[c[2]][((c[1] - 1) % 3) + 1]]

FitnessMatrices == {MatrixOf(FitnessTables[k]) : k \in 1..Len(FitnessTables)}
CountMatrices == {MatrixOf(CountTables[k]) : k \in 1..Len(CountTables)}

(***************************************************************************)
(* The experiment: the Gene object, and the count and fitness matrices of *)
(* the two replicates of each drug.  The replicates of AMP range over the *)
(* families; those of CTX are one fixed pair.                             *)
(***************************************************************************)
Init ==
    /\ \E fx \in FitnessMatrices, fy \in FitnessMatrices :
           fitness_dict = (Sample("AMP", "1") :> fx) @@ (Sample("AMP", "2") :> fy)
                          @@ (Sample("CTX", "1") :> MatrixOf(FitnessTables[1]))
                          @@ (Sample("CTX", "2") :> MatrixOf(FitnessTables[2]))
    /\ \E cx \in CountMatrices, cy \in CountMatrices :
           counts_dict = (Sample("AMP", "1") :> cx) @@ (Sample("AMP", "2") :> cy)
                         @@ (Sample("CTX", "1") :> MatrixOf(CountTables[2]))
                         @@ (Sample("CTX", "2") :> MatrixOf(CountTables[1]))
    /\ sample_order = InsertionOrder
    /\ gene \in Genes
    /\ call = [op |-> "none"]
    /\ ret = [status |-> "none"]
    /\ steps = <<>>

(***************************************************************************)
(* The steps of a call, in program order.  Each step is a call of the     *)
(* filter (with the arguments the caller passes: the sample, the two      *)
(* mappings, gene and read_threshold), a call of the classifier, or the   *)
(* drawing of an artist on an axes; out is what the step returned.  An    *)
(* error ends the call: the steps stop at the failing one.                *)
(***************************************************************************)
filter_step(sample, cd, fd, gene_arg, read_threshold) ==
    [step |-> "filter",
     args |-> <<sample, "counts_dict", "fitness_dict", gene_arg, read_threshold>>,
     out  |-> filter_call(sample, cd, fd, gene_arg, read_threshold)]

classify_step(df_x, df_y, sigma_cutoff) ==
    [step |-> "classify",
     args |-> <<df_x, df_y, sigma_cutoff>>,
     out  |-> gaussian_significance(df_x, df_y, sigma_cutoff)]

draw_step(artist, data) ==
    [step |-> "draw", args |-> <<artist>>, out |-> [status |-> "ok", value |-> data]]

Failed(log) == log # <<>> /\ log[Len(log)].out.status = "error"

RECURSIVE filter_steps_retry(_, _, _, _, _)
filter_steps_retry(names, cd, fd, gene_arg, read_threshold) ==
    IF names = <<>> THEN <<>>
    ELSE LET f == filter_step(Head(names), cd, fd, gene_arg, read_threshold)
         IN IF f.out.status = "error" THEN <<f, f>>
            ELSE <<f>> \o filter_steps_retry(Tail(names), cd, fd, gene_arg, read_threshold)

RECURSIVE filter_steps(_, _, _, _, _)
filter_steps(names, cd, fd, gene_arg, read_threshold) ==
    IF names = <<>> THEN <<>>
    ELSE LET f == filter_step(Head(names), cd, fd, gene_arg, read_threshold)
         IN IF f.out.status = "error" THEN <<f>>
            ELSE <<f>> \o filter_steps(Tail(names), cd, fd, gene_arg, read_threshold)

(***************************************************************************)
(* keys: the keys of a mapping in insertion order.  run_calls: the calls  *)
(* i..n of a sequence made one after the other, up to and including the   *)
(* first that fails; fds holds the caller's fitness mapping as each call  *)
(* left it.                                                                *)
(***************************************************************************)
keys(d, order) ==
    LET present(k) == k \in DOMAIN d
    IN SelectSeq(order, present)

RECURSIVE run_calls(_, _, _)
run_calls(calls, i, n) ==
    IF i > n THEN [rets |-> <<>>, steps |-> <<>>, fds |-> <<>>]
    ELSE LET c == calls[i]
         IN IF c.ret.status = "error"
            THEN [rets |-> <<c.ret>>, steps |-> c.steps, fds |-> <<c.fd>>]
            ELSE LET rest == run_calls(calls, i + 1, n)
                 IN [rets |-> <<c.ret>> \o rest.rets, steps |-> c.steps \o rest.steps,
                     fds |-> <<c.fd>> \o rest.fds]

(***************************************************************************)
(* plt.subplots(rows, cols) returns a single Axes for a 1 x 1 grid, a     *)
(* one-dimensional array when one of the two is 1 and a two-dimensional   *)
(* array otherwise.                                                        *)
(***************************************************************************)
subplots_ndim(rows, cols) ==
    IF rows = 1 /\ cols = 1 THEN 0
    ELSE IF rows = 1 \/ cols = 1 THEN 1
    ELSE 2

(***************************************************************************)
(* histogram_mutation_counts: one subplot per sample of the counts        *)
(* mapping, in the order enumerate(counts) yields them, each titled with  *)
(* its sample and holding the histogram of that sample's counts.          *)
(***************************************************************************)
enumerate_counts(cd, order) == keys(cd, order)

histogram_mutation_counts ==
    LET names == enumerate_counts(counts_dict, sample_order)
    IN /\ call' = [op |-> "histogram_mutation_counts"]
       /\ ret' = [status |-> "ok", subplots |-> names]
       /\ steps' = [i \in 1..Len(names) |->
                       draw_step("hist", <<i, names[i], counts_dict[names[i]]>>)]
       /\ UNCHANGED <<counts_dict, fitness_dict, sample_order, gene>>

(***************************************************************************)
(* heatmap_draw: for the fitness dataset every sample is filtered with    *)
(* the call's read_threshold, in sorted order; for the counts dataset the *)
(* count matrices are drawn as they are.  The i-th heatmap is that of the *)
(* i-th key of sorted(df_dict).                                            *)
(***************************************************************************)
heatmap_df_dict_default(dataset, cd, fd, gene_arg, read_threshold) ==
    IF dataset = "counts" THEN cd
    ELSE [key \in DOMAIN fd |->
             filter_fitness_read_noise(key, cd, fd, gene_arg, DefaultReadThreshold)]

heatmap_df_dict(dataset, cd, fd, gene_arg, read_threshold) ==
    IF dataset = "counts" THEN cd
    ELSE [key \in DOMAIN fd |->
             filter_fitness_read_noise(key, cd, fd, gene_arg, read_threshold)]

heatmap_samples(dataset, cd, fd, order) ==
    IF dataset = "counts" THEN sorted(keys(cd, order))
    ELSE sorted(sorted(keys(fd, order)))

heatmap_draw(dataset, read_threshold, orientation) ==
    LET pre == IF dataset = "counts" THEN <<>>
               ELSE filter_steps(sorted(keys(fitness_dict, sample_order)), counts_dict,
                                 fitness_dict, gene, read_threshold)
        df_dict == heatmap_df_dict(dataset, counts_dict, fitness_dict, gene,
                                   read_threshold)
        names == heatmap_samples(dataset, counts_dict, fitness_dict, sample_order)
    IN /\ call' = [op |-> "heatmap_draw", dataset |-> dataset, gene |-> gene,
                   read_threshold |-> read_threshold, orientation |-> orientation]
       /\ IF Failed(pre)
          THEN /\ ret' = pre[Len(pre)].out
               /\ steps' = pre
          ELSE /\ ret' = [status |-> "ok", df_dict |-> df_dict, subplots |-> names]
               /\ steps' = pre \o [i \in 1..Len(names) |->
                                      draw_step("heatmap", <<i, names[i], df_dict[names[i]]>>)]
       /\ UNCHANGED <<counts_dict, fitness_dict, sample_order, gene>>

(***************************************************************************)
(* relabel_axis(fig, gene, orientation), called on the figure that        *)
(* heatmap_draw returned, with the orientation it was drawn in.           *)
(*                                                                         *)
(* An array is a shape and its values in row-major order.  get_array is   *)
(* the array of the heatmap on an axes: heatmap_wrapper draws df, one row *)
(* per position and one column per residue, in vertical orientation and   *)
(* df.T in horizontal orientation.  heatmap_masks(gene) has one row per   *)
(* position of the gene and one column per residue; reshape raises        *)
(* ValueError when the sizes differ; data[y, x] raises IndexError outside *)
(* the shape.                                                              *)
(***************************************************************************)
df_wt_columns == <<"A", STOP, SYN>>

columns_of(df) ==
    LET present(r) == r \in ColumnsOf(df)
    IN SelectSeq(df_wt_columns, present)

get_array(df, orientation) ==
    LET npos == Cardinality(PositionsOf(df))
        cols == columns_of(df)
        ncol == Len(cols)
    IN IF orientation = "vertical"
       THEN [shape |-> <<npos, ncol>>,
             flat |-> [k \in 1..(npos * ncol) |->
                          df[<<((k - 1) \div ncol) + 1, cols[((k - 1) % ncol) + 1]>>]]]
       ELSE [shape |-> <<ncol, npos>>,
             flat |-> [k \in 1..(npos * ncol) |->
                          df[<<((k - 1) % npos) + 1, cols[((k - 1) \div npos) + 1]>>]]]

Max(S) == CHOOSE n \in S : \A k \in S : k <= n

heatmap_masks_shape(fd) ==
    <<Max({Cardinality(PositionsOf(fd[s])) : s \in DOMAIN fd}), Len(df_wt_columns)>>

reshape(array, rows, cols) ==
    IF Len(array.flat) # rows * cols THEN [status |-> "error", error |-> "value"]
    ELSE [status |-> "ok", shape |-> <<rows, cols>>, flat |-> array.flat]

getitem(data, y, x) ==
    IF y >= data.shape[1] \/ x >= data.shape[2]
    THEN [status |-> "error", error |-> "index"]
    ELSE [status |-> "ok", value |-> data.flat[y * data.shape[2] + x + 1]]

(***************************************************************************)
(* format_coord(x, y) as relabel_axis defines it, for the floor of the    *)
(* cursor coordinates: the residue comes from df_wt.columns, the position *)
(* from the cursor, the value is data[y, x].                              *)
(***************************************************************************)
format_coord(orientation, data, x, y) ==
    LET r == IF orientation = "vertical" THEN x ELSE y
        pos == IF orientation = "vertical" THEN y ELSE x
        value == getitem(data, y, x)
    IN IF r >= Len(df_wt_columns) THEN [status |-> "error", error |-> "index"]
       ELSE IF value.status = "error" THEN value
       ELSE [status |-> "ok", pos |-> pos, residue |-> df_wt_columns[r + 1],
             value |-> value.value]

(***************************************************************************)
(* The function format_coord is defined inside the loop over the axes and *)
(* reads the local variable data of relabel_axis: a closure holds the     *)
(* variable, not the value it had when the function was defined.  When a  *)
(* format_coord is called, after relabel_axis has returned, data is what  *)
(* the last iteration of the loop assigned.                                *)
(***************************************************************************)
closure_data(datas, i) == datas[Len(datas)]

relabel_axis ==
    /\ call.op = "heatmap_draw"
    /\ ret.status = "ok"
    /\ call.dataset = "fitness"
    /\ LET shape == heatmap_masks_shape(fitness_dict)
           names == ret.subplots
           arrays == [i \in 1..Len(names) |->
                         get_array(ret.df_dict[names[i]], call.orientation)]
           datas == [i \in 1..Len(names) |-> reshape(arrays[i], shape[1], shape[2])]
       IN /\ call' = [op |-> "relabel_axis", gene |-> gene,
                      orientation |-> call.orientation]
          /\ IF \E i \in 1..Len(names) : datas[i].status = "error"
             THEN ret' = [status |-> "error", error |-> "value"]
             ELSE ret' = [status |-> "ok", rows |-> shape[1], cols |-> shape[2],
                          arrays |-> arrays,
                          data |-> [i \in 1..Len(names) |-> closure_data(datas, i)]]
    /\ steps' = <<>>
    /\ UNCHANGED <<counts_dict, fitness_dict, sample_order, gene>>

(***************************************************************************)
(* histogram_fitness_draw: every sample is filtered with read_threshold,  *)
(* in sorted order, and drawn on the axes of its index.                   *)
(***************************************************************************)
fitness_dict_filter_default(cd, fd, gene_arg, read_threshold) ==
    [sample \in DOMAIN fd |->
        filter_fitness_read_noise(sample, cd, fd, gene_arg, DefaultReadThreshold)]

fitness_dict_filter(cd, fd, gene_arg, read_threshold) ==
    [sample \in DOMAIN fd |->
        filter_fitness_read_noise(sample, cd, fd, gene_arg, read_threshold)]

samples(fd, order) == sorted(keys(fd, order))

histogram_fitness_draw(read_threshold) ==
    LET names == samples(fitness_dict, sample_order)
        pre == filter_steps(names, counts_dict, fitness_dict, gene, read_threshold)
        filtered == fitness_dict_filter(counts_dict, fitness_dict, gene, read_threshold)
    IN /\ call' = [op |-> "histogram_fitness_draw", gene |-> gene,
                   read_threshold |-> read_threshold]
       /\ IF Failed(pre)
          THEN /\ ret' = pre[Len(pre)].out
               /\ steps' = pre
          ELSE /\ ret' = [status |-> "ok", fitness_dict_filter |-> filtered,
                          subplots |-> names]
               /\ steps' = pre \o [i \in 1..Len(names) |->
                                      draw_step("hist", <<i, names[i], filtered[names[i]]>>)]
       /\ UNCHANGED <<counts_dict, fitness_dict, sample_order, gene>>

(***************************************************************************)
(* gaussian_drug: filter both replicates of the drug, classify the two    *)
(* filtered matrices, draw one Ellipse patch per item of ellipses_all and *)
(* the scatterplots.  program_order is the order of the statements: the   *)
(* two filter calls, the classifier call, the drawing.                    *)
(***************************************************************************)
program_order_draw_first(filters, classifies, draws) == draws \o filters \o classifies

program_order(filters, classifies, draws) == filters \o classifies \o draws

replica_frames_unfiltered(drug, cd, fd, gene_arg, read_threshold) ==
    LET pair == get_pairs(drug, fd)
    IN <<fd[pair[1]], fd[pair[2]]>>

replica_frames(drug, cd, fd, gene_arg, read_threshold) ==
    LET pair == get_pairs(drug, fd)
    IN <<filter_fitness_read_noise(pair[1], cd, fd, gene_arg, read_threshold),
         filter_fitness_read_noise(pair[2], cd, fd, gene_arg, read_threshold)>>

gaussian_drug_patches_skip_first(ellipses_all) ==
    [i \in 1..(Len(ellipses_all) - 1) |-> ellipses_all[i + 1].value]

gaussian_drug_patches(ellipses_all) ==
    [i \in 1..Len(ellipses_all) |-> ellipses_all[i].value]

gaussian_drug_call(drug, cd, fd, gene_arg, read_threshold, sigma_cutoff) ==
    With(filter_steps(get_pairs(drug, fd), cd, fd, gene_arg, read_threshold),
         LAMBDA filters :
    IF Failed(filters)
    THEN [ret |-> filters[Len(filters)].out, steps |-> filters, fd |-> fd]
    ELSE
    With(replica_frames(drug, cd, fd, gene_arg, read_threshold), LAMBDA df :
    With(classify_step(df[1], df[2], sigma_cutoff), LAMBDA c :
    IF c.out.status = "error"
    THEN [ret |-> c.out, steps |-> program_order(filters, <<c>>, <<>>), fd |-> fd]
    ELSE
    With(unpack(c.out.value), LAMBDA r :
    With(gaussian_drug_patches(r.ellipses_all), LAMBDA patches :
        [ret |-> [status |-> "ok", df_x |-> df[1], df_y |-> df[2],
                  sign_sensitive |-> r.sign_sensitive,
                  sign_resistant |-> r.sign_resistant,
                  ellipses_all |-> r.ellipses_all,
                  patches |-> patches],
         steps |-> program_order(filters, <<c>>,
                       <<draw_step("ellipses", patches),
                         draw_step("scatter", <<r.sign_resistant, r.sign_sensitive>>)>>),
         fd |-> fd])))))

gaussian_drug(drug, read_threshold, sigma_cutoff) ==
    \E c \in {gaussian_drug_call(drug, counts_dict, fitness_dict, gene, read_threshold,
                                 sigma_cutoff)} :
       /\ call' = [op |-> "gaussian_drug", drug |-> drug, gene |-> gene,
                   read_threshold |-> read_threshold, sigma_cutoff |-> sigma_cutoff]
       /\ ret' = c.ret
       /\ steps' = c.steps
       /\ UNCHANGED <<counts_dict, fitness_dict, sample_order, gene>>

(***************************************************************************)
(* shish_kabob_drug.  The frames of the call live in a store of named     *)
(* objects next to the caller's matrices (named by sample): df1 and df2   *)
(* are the filter's new matrices, df is the new frame that boolean        *)
(* indexing of df1 returns, and df.update writes in place into the        *)
(* object it is called on.  The caller's fitness_dict after the call is   *)
(* the store restricted to the sample names.  df_masked_plot is the       *)
(* heatmap drawn: the rows of df_masked at sign_positions.                *)
(***************************************************************************)
abs_gt(df_a, df_b) ==
    [c \in DOMAIN df_a |->
        /\ ~isnan(df_a[c])
        /\ ~isnan(df_b[c])
        /\ Abs(df_a[c]) > Abs(df_b[c])]

abs_ge(df_a, df_b) ==
    [c \in DOMAIN df_a |->
        /\ ~isnan(df_a[c])
        /\ ~isnan(df_b[c])
        /\ Abs(df_a[c]) >= Abs(df_b[c])]

boolean_index(df, mask) == [c \in DOMAIN df |-> IF mask[c] THEN df[c] ELSE NaN]

update(df, other) == [c \in DOMAIN df |-> IF isnan(other[c]) THEN df[c] ELSE other[c]]

update_target_first_replica(replica_one) == replica_one

update_target(replica_one) == "df"

shish_kabob_store(drug, cd, fd, gene_arg, read_threshold) ==
    With(replica_frames(drug, cd, fd, gene_arg, read_threshold), LAMBDA frames :
    With(fd @@ ("df1" :> frames[1]) @@ ("df2" :> frames[2])
            @@ ("df" :> boolean_index(frames[1], abs_ge(frames[1], frames[2]))),
         LAMBDA s1 :
    With(update_target(get_pairs(drug, fd)[1]), LAMBDA target :
        [s1 EXCEPT ![target] =
            update(s1[target], boolean_index(frames[2], abs_ge(frames[2], frames[1])))])))

sign_positions_of(sign_sensitive, sign_resistant) ==
    {p \in PositionsOf(sign_sensitive) :
        \E r \in ColumnsOf(sign_sensitive) \ {STOP} :
            sign_sensitive[<<p, r>>] \/ sign_resistant[<<p, r>>]}

df_masked_of(df, sign_sensitive, sign_resistant) ==
    [c \in {k \in DOMAIN df : k[2] # SYN} |->
        IF sign_resistant[c] \/ sign_sensitive[c] THEN df[c] ELSE NaN]

df_masked_plot_of(df_masked, sign_positions) ==
    [c \in {k \in DOMAIN df_masked : k[1] \in sign_positions} |-> df_masked[c]]

shish_kabob_drug_call(drug, cd, fd, gene_arg, read_threshold, sigma_cutoff) ==
    With(filter_steps(get_pairs(drug, fd), cd, fd, gene_arg, read_threshold),
         LAMBDA filters :
    IF Failed(filters)
    THEN [ret |-> filters[Len(filters)].out, steps |-> filters, fd |-> fd]
    ELSE
    With(replica_frames(drug, cd, fd, gene_arg, read_threshold), LAMBDA frames :
    With(classify_step(frames[1], frames[2], sigma_cutoff), LAMBDA c :
    IF c.out.status = "error"
    THEN [ret |-> c.out, steps |-> program_order(filters, <<c>>, <<>>), fd |-> fd]
    ELSE
    With(unpack(c.out.value), LAMBDA r :
    With(sign_positions_of(r.sign_sensitive, r.sign_resistant), LAMBDA sign_positions :
    With(shish_kabob_store(drug, cd, fd, gene_arg, read_threshold), LAMBDA store :
    With(df_masked_of(store["df"], r.sign_sensitive, r.sign_resistant), LAMBDA df_masked :
    With(df_masked_plot_of(df_masked, sign_positions), LAMBDA df_masked_plot :
        [ret |-> [status |-> "ok", df1 |-> store["df1"], df2 |-> store["df2"],
                  sign_sensitive |-> r.sign_sensitive,
                  sign_resistant |-> r.sign_resistant,
                  sign_positions |-> sign_positions,
                  df |-> store["df"],
                  df_masked |-> df_masked,
                  df_masked_plot |-> df_masked_plot],
         steps |-> program_order(filters, <<c>>,
                                 <<draw_step("heatmap", df_masked_plot)>>),
         fd |-> [s \in DOMAIN fd |-> store[s]]]))))))))

shish_kabob_drug(drug, read_threshold, sigma_cutoff) ==
    \E c \in {shish_kabob_drug_call(drug, counts_dict, fitness_dict, gene, read_threshold,
                                    sigma_cutoff)} :
       /\ call' = [op |-> "shish_kabob_drug", drug |-> drug, gene |-> gene,
                   read_threshold |-> read_threshold, sigma_cutoff |-> sigma_cutoff]
       /\ ret' = c.ret
       /\ steps' = c.steps
       /\ fitness_dict' = c.fd
       /\ UNCHANGED <<counts_dict, sample_order, gene>>

(***************************************************************************)
(* drug_pair: filter and classify the replicates of drug1, then those of  *)
(* drug2, then average the two replicates of each drug cell by cell (NaN  *)
(* skipped) in new frames and draw.  The frames of means hold twice the   *)
(* mean, an integer.                                                       *)
(***************************************************************************)
replicate_mean(df_a, df_b) ==
    [c \in DOMAIN df_a |->
        IF isnan(df_a[c]) /\ isnan(df_b[c]) THEN NaN
        ELSE IF isnan(df_a[c]) THEN 2 * df_b[c]
        ELSE IF isnan(df_b[c]) THEN 2 * df_a[c]
        ELSE df_a[c] + df_b[c]]

drug_pair_call(drug1, drug2, cd, fd, gene_arg, read_threshold, sigma_cutoff) ==
    With(filter_steps(get_pairs(drug1, fd), cd, fd, gene_arg, read_threshold),
         LAMBDA filters1 :
    IF Failed(filters1)
    THEN [ret |-> filters1[Len(filters1)].out, steps |-> filters1, fd |-> fd]
    ELSE
    With(replica_frames(drug1, cd, fd, gene_arg, read_threshold), LAMBDA df1 :
    With(classify_step(df1[1], df1[2], sigma_cutoff), LAMBDA c1 :
    With(program_order(filters1, <<c1>>, <<>>), LAMBDA first :
    IF c1.out.status = "error"
    THEN [ret |-> c1.out, steps |-> first, fd |-> fd]
    ELSE
    With(filter_steps(get_pairs(drug2, fd), cd, fd, gene_arg, read_threshold),
         LAMBDA filters2 :
    IF Failed(filters2)
    THEN [ret |-> filters2[Len(filters2)].out, steps |-> first \o filters2, fd |-> fd]
    ELSE
    With(replica_frames(drug2, cd, fd, gene_arg, read_threshold), LAMBDA df2 :
    With(classify_step(df2[1], df2[2], sigma_cutoff), LAMBDA c2 :
    IF c2.out.status = "error"
    THEN [ret |-> c2.out, steps |-> first \o program_order(filters2, <<c2>>, <<>>),
          fd |-> fd]
    ELSE
    With(unpack(c1.out.value), LAMBDA r1 :
    With(unpack(c2.out.value), LAMBDA r2 :
    With(replicate_mean(df1[1], df1[2]), LAMBDA df1_xy :
    With(replicate_mean(df2[1], df2[2]), LAMBDA df2_xy :
        [ret |-> [status |-> "ok",
                  df1_x |-> df1[1], df1_y |-> df1[2],
                  df2_x |-> df2[1], df2_y |-> df2[2],
                  df_sign_sensitive1 |-> r1.sign_sensitive,
                  df_sign_resistant1 |-> r1.sign_resistant,
                  df_sign_sensitive2 |-> r2.sign_sensitive,
                  df_sign_resistant2 |-> r2.sign_resistant,
                  df1_xy |-> df1_xy,
                  df2_xy |-> df2_xy],
         steps |-> first \o program_order(filters2, <<c2>>,
                       <<draw_step("scatter",
                             <<df1_xy, df2_xy, r1.sign_sensitive, r1.sign_resistant,
                               r2.sign_sensitive, r2.sign_resistant>>)>>),
         fd |-> fd])))))))))))

drug_pair(drug1, drug2, read_threshold, sigma_cutoff) ==
    \E c \in {drug_pair_call(drug1, drug2, counts_dict, fitness_dict, gene,
                             read_threshold, sigma_cutoff)} :
       /\ call' = [op |-> "drug_pair", drug1 |-> drug1, drug2 |-> drug2, gene |-> gene,
                   read_threshold |-> read_threshold, sigma_cutoff |-> sigma_cutoff]
       /\ ret' = c.ret
       /\ steps' = c.steps
       /\ UNCHANGED <<counts_dict, fitness_dict, sample_order, gene>>

(***************************************************************************)
(* The figures of several drugs.  sorted_drugs is drugs_all as the code   *)
(* builds it, sorted(set(...)).                                            *)
(***************************************************************************)
sorted_drugs(fd) == SetToSortedSeq(drugs_all(fd))

ISqrt(n) == CHOOSE k \in 0..n : k * k <= n /\ n < (k + 1) * (k + 1)

(***************************************************************************)
(* gaussian_replica_pair_draw: a grid of about sqrt(n) x sqrt(n) axes,    *)
(* gaussian_drug of the i-th drug of sorted(drugs_all) on axs.flat[i],    *)
(* then the trailing axes removed until n are left.                       *)
(***************************************************************************)
replica_grid_floor(num_plots) ==
    LET root == ISqrt(num_plots)
    IN [rows |-> root, cols |-> IF root * root = num_plots THEN root ELSE root + 1]

replica_grid(num_plots) ==
    LET root == ISqrt(num_plots)
        rows == root
        cols == IF root * root = num_plots THEN root ELSE root + 1
    IN [rows |-> IF num_plots > rows * cols THEN rows + 1 ELSE rows, cols |-> cols]

(***************************************************************************)
(* while len(fig.axes) > num_plots: fig.axes[-1].remove().  fig_axes is   *)
(* the list fig.axes, the axes of the grid in axs.flat order (numbered    *)
(* from 1); removed is the axes removed so far, in the order of removal.  *)
(***************************************************************************)
RECURSIVE remove_trailing(_, _, _)
remove_trailing(fig_axes, removed, num_plots) ==
    IF Len(fig_axes) > num_plots
    THEN remove_trailing(SubSeq(fig_axes, 1, Len(fig_axes) - 1),
                         Append(removed, fig_axes[Len(fig_axes)]), num_plots)
    ELSE [axes |-> fig_axes, removed |-> removed]

gaussian_replica_pair_draw(read_threshold, sigma_cutoff) ==
    LET drugs == sorted(sorted_drugs(fitness_dict))
        num_plots == Len(drugs)
        grid == replica_grid(num_plots)
        run == run_calls([i \in 1..num_plots |->
                             gaussian_drug_call(drugs[i], counts_dict, fitness_dict, gene,
                                                read_threshold, sigma_cutoff)],
                         1, num_plots)
    IN /\ call' = [op |-> "gaussian_replica_pair_draw", gene |-> gene,
                   read_threshold |-> read_threshold, sigma_cutoff |-> sigma_cutoff]
       /\ IF subplots_ndim(grid.rows, grid.cols) = 0
          THEN /\ ret' = [status |-> "error", error |-> "no_flat"]
               /\ steps' = <<>>
          ELSE /\ ret' = IF run.rets[Len(run.rets)].status = "error"
                         THEN run.rets[Len(run.rets)]
                         ELSE [status |-> "ok", rows |-> grid.rows, cols |-> grid.cols,
                               subplots |-> drugs, results |-> run.rets,
                               drawn |-> [i \in 1..num_plots |-> i],
                               axes |-> remove_trailing(
                                            [k \in 1..(grid.rows * grid.cols) |-> k],
                                            <<>>, num_plots).axes,
                               removed |-> remove_trailing(
                                               [k \in 1..(grid.rows * grid.cols) |-> k],
                                               <<>>, num_plots).removed]
               /\ steps' = run.steps
       /\ UNCHANGED <<counts_dict, fitness_dict, sample_order, gene>>

(***************************************************************************)
(* shish_kabob_draw: for the i-th drug of drugs_all, gaussian_drug on the *)
(* second axes of row (or column) i and shish_kabob_drug on the first.    *)
(***************************************************************************)
shish_kabob_draw(read_threshold, sigma_cutoff, orientation) ==
    LET drugs == sorted_drugs(fitness_dict)
        n == Len(drugs)
        num_rows == IF orientation = "horizontal" THEN n ELSE 2
        num_cols == IF orientation = "horizontal" THEN 2 ELSE n
        calls == [k \in 1..(2 * n) |->
                     IF k % 2 = 1
                     THEN gaussian_drug_call(drugs[(k + 1) \div 2], counts_dict,
                                             fitness_dict, gene, read_threshold,
                                             sigma_cutoff)
                     ELSE shish_kabob_drug_call(drugs[k \div 2], counts_dict,
                                                fitness_dict, gene, read_threshold,
                                                sigma_cutoff)]
        run == run_calls(calls, 1, 2 * n)
        done(i) == 2 * i <= Len(run.rets) /\ run.rets[2 * i].status = "ok"
        index_of(s) == CHOOSE i \in 1..n : s \in Range(get_pairs(drugs[i], fitness_dict))
    IN /\ call' = [op |-> "shish_kabob_draw", gene |-> gene, orientation |-> orientation,
                   read_threshold |-> read_threshold, sigma_cutoff |-> sigma_cutoff]
       /\ IF subplots_ndim(num_rows, num_cols) # 2
          THEN /\ ret' = [status |-> "error", error |-> "index"]
               /\ steps' = <<>>
               /\ UNCHANGED fitness_dict
          ELSE /\ ret' = IF run.rets[Len(run.rets)].status = "error"
                         THEN run.rets[Len(run.rets)]
                         ELSE [status |-> "ok", subplots |-> drugs,
                               axes |-> [i \in 1..n |->
                                   IF orientation = "horizontal"
                                   THEN [ax_shish |-> <<i - 1, 0>>, ax_gauss |-> <<i - 1, 1>>]
                                   ELSE [ax_shish |-> <<0, i - 1>>, ax_gauss |-> <<1, i - 1>>]],
                               results |-> run.rets]
               /\ steps' = run.steps
               /\ fitness_dict' =
                      [s \in DOMAIN fitness_dict |->
                          IF done(index_of(s)) THEN run.fds[2 * index_of(s)][s]
                          ELSE fitness_dict[s]]
       /\ UNCHANGED <<counts_dict, sample_order, gene>>

(***************************************************************************)
(* drug_pairs_draw: an (n - 1) x (n - 1) grid; for every row drug and     *)
(* column drug of drugs_all, in that nesting, drug_pair(column drug, row  *)
(* drug) on axs[row - 1, col] when row > col, and the axes removed when   *)
(* row > 0 and col < n - 1 otherwise.                                      *)
(***************************************************************************)
drug_pairs_draw(read_threshold, sigma_cutoff) ==
    LET drugs == sorted_drugs(fitness_dict)
        n == Len(drugs)
        rows == n - 1
        cols == n - 1
        visits == [k \in 1..(n * n) |-> [ax_row |-> (k - 1) \div n, ax_col |-> (k - 1) % n]]
        is_drawn(v) == v.ax_row > v.ax_col
        is_removed(v) == ~is_drawn(v) /\ v.ax_row > 0 /\ v.ax_col < n - 1
        drawn == SelectSeq(visits, is_drawn)
        removed == SelectSeq(visits, is_removed)
        run == run_calls([i \in 1..Len(drawn) |->
                             drug_pair_call(drugs[drawn[i].ax_col + 1],
                                            drugs[drawn[i].ax_row + 1], counts_dict,
                                            fitness_dict, gene, read_threshold,
                                            sigma_cutoff)],
                         1, Len(drawn))
    IN /\ call' = [op |-> "drug_pairs_draw", gene |-> gene,
                   read_threshold |-> read_threshold, sigma_cutoff |-> sigma_cutoff]
       /\ IF rows < 1
          THEN /\ ret' = [status |-> "error", error |-> "value"]
               /\ steps' = <<>>
          ELSE IF subplots_ndim(rows, cols) # 2
          THEN /\ ret' = [status |-> "error", error |-> "not_subscriptable"]
               /\ steps' = <<>>
          ELSE /\ ret' = IF run.rets[Len(run.rets)].status = "error"
                         THEN run.rets[Len(run.rets)]
                         ELSE [status |-> "ok", rows |-> rows, cols |-> cols,
                               subplots |-> [i \in 1..Len(drawn) |->
                                   [ax |-> <<drawn[i].ax_row - 1, drawn[i].ax_col>>,
                                    drug_x |-> drugs[drawn[i].ax_col + 1],
                                    drug_y |-> drugs[drawn[i].ax_row + 1]]],
                               removed |-> [j \in 1..Len(removed) |->
                                   <<removed[j].ax_row - 1, removed[j].ax_col>>],
                               results |-> run.rets]
               /\ steps' = run.steps
       /\ UNCHANGED <<counts_dict, fitness_dict, sample_order, gene>>

FigureSigmaCutoffs == {MaxSigma}

(***************************************************************************)
(* The functions are called one at a time by a script or notebook: a call *)
(* starts when no call is in progress, and Return hands control back.     *)
(***************************************************************************)
Idle == call.op = "none"

Return ==
    /\ ~Idle
    /\ call' = [op |-> "none"]
    /\ ret' = [status |-> "none"]
    /\ steps' = <<>>
    /\ UNCHANGED <<counts_dict, fitness_dict, sample_order, gene>>

Next ==
    \/ Idle /\ histogram_mutation_counts
    \/ \E dataset \in {"counts", "fitness"}, rt \in ReadThresholds,
          orientation \in {"horizontal", "vertical"} :
           Idle /\ heatmap_draw(dataset, rt, orientation)
    \/ relabel_axis
    \/ \E rt \in ReadThresholds :
           Idle /\ histogram_fitness_draw(rt)
    \/ \E drug \in drugs_all(fitness_dict), rt \in ReadThresholds, sc \in SigmaCutoffs :
           Idle /\ gaussian_drug(drug, rt, sc)
    \/ \E drug \in drugs_all(fitness_dict), rt \in ReadThresholds, sc \in SigmaCutoffs :
           Idle /\ shish_kabob_drug(drug, rt, sc)
    \/ \E drug1 \in drugs_all(fitness_dict), drug2 \in drugs_all(fitness_dict),
          rt \in ReadThresholds, sc \in SigmaCutoffs :
           /\ Idle
           /\ drug1 # drug2
           /\ drug_pair(drug1, drug2, rt, sc)
    \/ \E rt \in ReadThresholds, sc \in FigureSigmaCutoffs :
           Idle /\ gaussian_replica_pair_draw(rt, sc)
    \/ \E rt \in ReadThresholds, sc \in FigureSigmaCutoffs,
          orientation \in {"horizontal", "vertical"} :
           Idle /\ shish_kabob_draw(rt, sc, orientation)
    \/ \E rt \in ReadThresholds, sc \in FigureSigmaCutoffs :
           Idle /\ drug_pairs_draw(rt, sc)
    \/ Return

Spec == Init /\ [][Next]_vars

(***************************************************************************)
(* What the last call produced, for the properties below.                 *)
(*                                                                         *)
(* FilteredFrames: the pairs <<sample, matrix>> the noise filter returned *)
(* in the last call.  Classified: one record per classifier call of the   *)
(* last call, with the two samples, the two matrices it was given and the *)
(* two masks.                                                              *)
(***************************************************************************)
Returned == ret.status = "ok"

FilteredFrames ==
    IF ~Returned THEN {}
    ELSE IF call.op = "heatmap_draw"
    THEN IF call.dataset = "fitness"
         THEN {<<k, ret.df_dict[k]>> : k \in DOMAIN ret.df_dict}
         ELSE {}
    ELSE IF call.op = "histogram_fitness_draw"
    THEN {<<k, ret.fitness_dict_filter[k]>> : k \in DOMAIN ret.fitness_dict_filter}
    ELSE IF call.op = "gaussian_drug"
    THEN LET pair == get_pairs(call.drug, fitness_dict)
         IN {<<pair[1], ret.df_x>>, <<pair[2], ret.df_y>>}
    ELSE IF call.op = "shish_kabob_drug"
    THEN LET pair == get_pairs(call.drug, fitness_dict)
         IN {<<pair[1], ret.df1>>, <<pair[2], ret.df2>>}
    ELSE IF call.op = "drug_pair"
    THEN LET pair1 == get_pairs(call.drug1, fitness_dict)
             pair2 == get_pairs(call.drug2, fitness_dict)
         IN {<<pair1[1], ret.df1_x>>, <<pair1[2], ret.df1_y>>,
             <<pair2[1], ret.df2_x>>, <<pair2[2], ret.df2_y>>}
    ELSE {<<steps[i].args[1], steps[i].out.value>> :
              i \in {j \in 1..Len(steps) : steps[j].step = "filter"}}

Classified ==
    IF ~Returned THEN {}
    ELSE IF call.op = "gaussian_drug"
    THEN LET pair == get_pairs(call.drug, fitness_dict)
         IN {[x |-> pair[1], y |-> pair[2], df_x |-> ret.df_x, df_y |-> ret.df_y,
              sensitive |-> ret.sign_sensitive, resistant |-> ret.sign_resistant]}
    ELSE IF call.op = "shish_kabob_drug"
    THEN LET pair == get_pairs(call.drug, fitness_dict)
         IN {[x |-> pair[1], y |-> pair[2], df_x |-> ret.df1, df_y |-> ret.df2,
              sensitive |-> ret.sign_sensitive, resistant |-> ret.sign_resistant]}
    ELSE IF call.op = "drug_pair"
    THEN LET pair1 == get_pairs(call.drug1, fitness_dict)
             pair2 == get_pairs(call.drug2, fitness_dict)
         IN {[x |-> pair1[1], y |-> pair1[2], df_x |-> ret.df1_x, df_y |-> ret.df1_y,
              sensitive |-> ret.df_sign_sensitive1, resistant |-> ret.df_sign_resistant1],
             [x |-> pair2[1], y |-> pair2[2], df_x |-> ret.df2_x, df_y |-> ret.df2_y,
              sensitive |-> ret.df_sign_sensitive2, resistant |-> ret.df_sign_resistant2]}
    ELSE {}

(***************************************************************************)
(* C1.  In every call, each matrix the noise filter returned is NaN in    *)
(* the cells whose read count is strictly below the call's read_threshold *)
(* and equals the sample's input fitness in the cells whose count is at   *)
(* least read_threshold.                                                   *)
(***************************************************************************)
C1_FilterMasksBelowThreshold ==
    \A f \in FilteredFrames :
        \A c \in DOMAIN f[2] :
            /\ counts_dict[f[1]][c] < call.read_threshold => isnan(f[2][c])
            /\ counts_dict[f[1]][c] >= call.read_threshold
                   => f[2][c] = fitness_dict[f[1]][c]

C1_Witness ==
    /\ call.op = "heatmap_draw"
    /\ \E f \in FilteredFrames :
           \E c1 \in DOMAIN f[2], c2 \in DOMAIN f[2] :
               /\ counts_dict[f[1]][c1] < call.read_threshold
               /\ ~isnan(fitness_dict[f[1]][c1])
               /\ isnan(f[2][c1])
               /\ counts_dict[f[1]][c2] = call.read_threshold
               /\ ~isnan(f[2][c2])

(***************************************************************************)
(* C2.  The sensitive mask and the resistant mask of one classifier call  *)
(* are disjoint: no cell is true in both.                                 *)
(***************************************************************************)
C2_MasksDisjoint ==
    \A k \in Classified :
        \A c \in DOMAIN k.sensitive : ~(k.sensitive[c] /\ k.resistant[c])

C2_Witness ==
    /\ call.op = "shish_kabob_drug"
    /\ \E k \in Classified :
           \E c1 \in DOMAIN k.sensitive, c2 \in DOMAIN k.sensitive :
               k.sensitive[c1] /\ k.resistant[c2]

(***************************************************************************)
(* C3.  In the filter-then-classify pipeline a cell that is missing in    *)
(* either filtered matrix, in particular a cell whose read count is below *)
(* read_threshold in either replicate, is in neither mask.                *)
(***************************************************************************)
MissingInPipeline(k, c) ==
    \/ isnan(k.df_x[c])
    \/ isnan(k.df_y[c])
    \/ counts_dict[k.x][c] < call.read_threshold
    \/ counts_dict[k.y][c] < call.read_threshold

C3_MissingCellsUnmasked ==
    \A k \in Classified :
        \A c \in DOMAIN k.sensitive :
            MissingInPipeline(k, c) => ~k.sensitive[c] /\ ~k.resistant[c]

C3_Witness ==
    /\ call.op = "gaussian_drug"
    /\ \E k \in Classified :
           \E c1 \in DOMAIN k.sensitive, c2 \in DOMAIN k.sensitive :
               /\ counts_dict[k.x][c1] < call.read_threshold
               /\ counts_dict[k.y][c1] >= call.read_threshold
               /\ ~isnan(fitness_dict[k.x][c1])
               /\ ~isnan(fitness_dict[k.y][c1])
               /\ k.sensitive[c2] \/ k.resistant[c2]

(***************************************************************************)
(* C4.  Every cell in a mask lies outside the sigma_cutoff ellipse of the *)
(* synonymous population, with both coordinates at or above the neutral   *)
(* mean (resistant) or both below it (sensitive); a cell outside the      *)
(* ellipse with one coordinate at or above and the other below the mean   *)
(* is in neither mask.  The distance is stated on the unreduced           *)
(* covariance sums.                                                        *)
(***************************************************************************)
Beyond(fit, sigma, px, py) ==
    LET u == fit.n * px - fit.sx
        v == fit.n * py - fit.sy
    IN (fit.n - 1) * (fit.c * u * u - 2 * fit.b * u * v + fit.a * v * v)
           > sigma * sigma * (fit.a * fit.c - fit.b * fit.b)

C4_MaskedCellsOutsideSameSide ==
    \A k \in Classified :
        LET fit == neutral_fit(k.df_x, k.df_y)
            above_x(c) == fit.n * k.df_x[c] >= fit.sx
            above_y(c) == fit.n * k.df_y[c] >= fit.sy
            present(c) == ~isnan(k.df_x[c]) /\ ~isnan(k.df_y[c])
        IN \A c \in DOMAIN k.sensitive :
               /\ k.resistant[c] =>
                      /\ present(c)
                      /\ Beyond(fit, call.sigma_cutoff, k.df_x[c], k.df_y[c])
                      /\ above_x(c) /\ above_y(c)
               /\ k.sensitive[c] =>
                      /\ present(c)
                      /\ Beyond(fit, call.sigma_cutoff, k.df_x[c], k.df_y[c])
                      /\ ~above_x(c) /\ ~above_y(c)
               /\ (present(c) /\ above_x(c) # above_y(c)) =>
                      ~k.resistant[c] /\ ~k.sensitive[c]

C4_Witness ==
    /\ call.op = "gaussian_drug"
    /\ \E k \in Classified :
           LET fit == neutral_fit(k.df_x, k.df_y)
           IN \E c1 \in DOMAIN k.sensitive, c2 \in DOMAIN k.sensitive :
                  /\ k.resistant[c1] \/ k.sensitive[c1]
                  /\ ~isnan(k.df_x[c2]) /\ ~isnan(k.df_y[c2])
                  /\ Beyond(fit, call.sigma_cutoff, k.df_x[c2], k.df_y[c2])
                  /\ (fit.n * k.df_x[c2] >= fit.sx) # (fit.n * k.df_y[c2] >= fit.sy)
                  /\ fit.a * fit.c > fit.b * fit.b

C6_FilterIdempotent ==
    \A f \in FilteredFrames :
        filter_fitness_read_noise(f[1], counts_dict,
                                  [fitness_dict EXCEPT ![f[1]] = f[2]],
                                  gene, call.read_threshold) = f[2]

C6_Witness ==
    /\ call.op = "gaussian_drug"
    /\ \E f \in FilteredFrames :
           /\ f[2] # fitness_dict[f[1]]
           /\ \E c1 \in DOMAIN f[2], c2 \in DOMAIN f[2] :
                  /\ ~isnan(f[2][c1]) /\ ~isnan(f[2][c2])
                  /\ f[2][c1] # f[2][c2]

(***************************************************************************)
(* C7.  No call changes a matrix of counts_dict or fitness_dict.          *)
(***************************************************************************)
C7_InputsNeverMutated ==
    [][counts_dict' = counts_dict /\ fitness_dict' = fitness_dict]_vars

C7_Witness ==
    /\ call.op = "shish_kabob_drug"
    /\ Returned
    /\ \E c \in DOMAIN ret.df :
           /\ ~isnan(ret.df[c])
           /\ ret.df[c] = ret.df2[c]
           /\ ret.df[c] # ret.df1[c]
           /\ fitness_dict[get_pairs(call.drug, fitness_dict)[1]][c] = ret.df1[c]

(***************************************************************************)
(* C8.  ellipses_all holds exactly one descriptor for each sigma level    *)
(* 1..sigma_cutoff, in ascending order, and gaussian_drug draws one patch *)
(* for each of them.                                                       *)
(***************************************************************************)
C8_OneEllipsePerSigmaLevel ==
    (call.op = "gaussian_drug" /\ Returned) =>
        /\ Len(ret.ellipses_all) = call.sigma_cutoff
        /\ \A i \in 1..Len(ret.ellipses_all) : ret.ellipses_all[i].sigma = i
        /\ Len(ret.patches) = call.sigma_cutoff
        /\ \A i \in 1..Len(ret.patches) : ret.patches[i] = ret.ellipses_all[i].value

C8_Witness ==
    /\ call.op = "gaussian_drug"
    /\ Returned
    /\ call.sigma_cutoff = MaxSigma
    /\ Len(ret.patches) > 1

(***************************************************************************)
(* Comparing two axes 2 sigma sqrt(lambda) of the same eigenvalue: the    *)
(* first is strictly smaller when its factor is smaller and lambda > 0.   *)
(* lambda = (t + r sqrt(d)) / q with t >= 0: the major one is positive    *)
(* when t > 0, the minor one when t^2 > d.                                *)
(***************************************************************************)
EigPositive(e) == IF e.r = 1 THEN e.t > 0 ELSE e.t * e.t > e.d

AxisLess(w1, w2) == w1.eig = w2.eig /\ w1.factor < w2.factor /\ EigPositive(w1.eig)

AxisZero(w) == ~EigPositive(w.eig)

UnitSynX == <<10, 10, -10, -10, 0>>
UnitSynY == <<10, -10, 10, -10, 0>>
UnitCells == (1..Len(UnitSynX)) \X Residues
TestPoints == {<<50, 50>>, <<-50, -50>>, <<1, 1>>, <<-50, 50>>}

UnitMatrix(syn, a) ==
    [c \in UnitCells |->
        IF c[2] = SYN THEN syn[c[1]]
        ELSE IF c[2] = "A" /\ c[1] \in DOMAIN a THEN a[c[1]]
        ELSE NaN]

InitUnit ==
    /\ \E pts \in [1..2 -> TestPoints] :
           fitness_dict =
               (Sample("AMP", "1") :> UnitMatrix(UnitSynX, [p \in 1..2 |-> pts[p][1]]))
               @@ (Sample("AMP", "2") :> UnitMatrix(UnitSynY, [p \in 1..2 |-> pts[p][2]]))
               @@ (Sample("CTX", "1") :> UnitMatrix(UnitSynX, <<50, -50, 1>>))
               @@ (Sample("CTX", "2") :> UnitMatrix(UnitSynY, <<50, -50, 1>>))
    /\ counts_dict = [s \in Range(InsertionOrder) |-> [c \in UnitCells |-> DefaultReadThreshold]]
    /\ sample_order = InsertionOrder
    /\ gene \in Genes
    /\ call = [op |-> "none"]
    /\ ret = [status |-> "none"]
    /\ steps = <<>>

SpecUnit == InitUnit /\ [][Next]_vars

UnitPopulation(fit) ==
    /\ fit.sx = 0
    /\ fit.sy = 0
    /\ fit.b = 0
    /\ fit.a = fit.c
    /\ fit.a = fit.n * fit.n * (fit.n - 1) * 100

(***************************************************************************)
(* C10.  With a synonymous population centred at (0, 0) with isotropic    *)
(* unit variance and sigma_cutoff = 3, a cell at (5, 5) is in the         *)
(* resistant mask only, a cell at (-5, -5) in the sensitive mask only and *)
(* a cell at (0.1, 0.1) in neither.                                        *)
(***************************************************************************)
C10_UnitPopulationCells ==
    \A k \in Classified :
        (call.sigma_cutoff = 3 /\ UnitPopulation(neutral_fit(k.df_x, k.df_y))) =>
            \A c \in DOMAIN k.sensitive :
                /\ (k.df_x[c] = 50 /\ k.df_y[c] = 50)
                       => k.resistant[c] /\ ~k.sensitive[c]
                /\ (k.df_x[c] = -50 /\ k.df_y[c] = -50)
                       => k.sensitive[c] /\ ~k.resistant[c]
                /\ (k.df_x[c] = 1 /\ k.df_y[c] = 1)
                       => ~k.sensitive[c] /\ ~k.resistant[c]

C10_Witness ==
    /\ call.op = "gaussian_drug"
    /\ call.sigma_cutoff = 3
    /\ \E k \in Classified :
           /\ UnitPopulation(neutral_fit(k.df_x, k.df_y))
           /\ \E c1 \in DOMAIN k.sensitive, c2 \in DOMAIN k.sensitive,
                 c3 \in DOMAIN k.sensitive :
                  /\ k.df_x[c1] = 50 /\ k.df_y[c1] = 50 /\ k.resistant[c1]
                  /\ k.df_x[c2] = -50 /\ k.df_y[c2] = -50 /\ k.sensitive[c2]
                  /\ k.df_x[c3] = 1 /\ k.df_y[c3] = 1 /\ ~k.resistant[c3]

(***************************************************************************)
(* The classifier applied to the matrices of a classifier call in the     *)
(* other order, with the call's sigma_cutoff.                              *)
(***************************************************************************)
Swapped(k) == gaussian_significance(k.df_y, k.df_x, call.sigma_cutoff)

Flagged(sensitive, resistant) ==
    {c \in DOMAIN sensitive : sensitive[c] \/ resistant[c]}

(***************************************************************************)
(* C11.  As claimed: classifying (y, x) instead of (x, y) exchanges the   *)
(* two labels (the sensitive mask of one is the resistant mask of the     *)
(* other) and leaves the set of flagged cells unchanged.                  *)
(***************************************************************************)
C11_SwapExchangesLabels ==
    \A k \in Classified :
        LET sw == Swapped(k)
        IN /\ sw.status = "ok"
           /\ unpack(sw.value).sign_sensitive = k.resistant
           /\ unpack(sw.value).sign_resistant = k.sensitive
           /\ Flagged(unpack(sw.value).sign_sensitive, unpack(sw.value).sign_resistant)
                  = Flagged(k.sensitive, k.resistant)

(***************************************************************************)
(* C11, amended.  Classifying (y, x) instead of (x, y) returns the same   *)
(* two masks: a sensitive cell stays sensitive, a resistant cell stays    *)
(* resistant, and so the set of flagged cells is unchanged.               *)
(***************************************************************************)
C11_SwapKeepsMasks ==
    \A k \in Classified :
        LET sw == Swapped(k)
        IN /\ sw.status = "ok"
           /\ unpack(sw.value).sign_sensitive = k.sensitive
           /\ unpack(sw.value).sign_resistant = k.resistant
           /\ Flagged(unpack(sw.value).sign_sensitive, unpack(sw.value).sign_resistant)
                  = Flagged(k.sensitive, k.resistant)

C11_Witness ==
    /\ call.op = "gaussian_drug"
    /\ \E k \in Classified :
           /\ k.df_x # k.df_y
           /\ Swapped(k).status = "ok"
           /\ \E c1 \in DOMAIN k.sensitive, c2 \in DOMAIN k.sensitive :
                  /\ k.sensitive[c1] /\ unpack(Swapped(k).value).sign_sensitive[c1]
                  /\ k.resistant[c2] /\ unpack(Swapped(k).value).sign_resistant[c2]
                  /\ k.df_x[c1] # k.df_y[c1]

(***************************************************************************)
(* Identical replicates that hold synonymous values only: the cells of    *)
(* the synonymous column are 0, 1 or missing, every other cell is         *)
(* missing, and the two replicates of a drug are the same matrix.         *)
(***************************************************************************)
SynOnlyMatrix(syn) == [c \in Cells |-> IF c[2] = SYN THEN syn[c[1]] ELSE NaN]

InitIdentical ==
    /\ \E syn \in [Positions -> {NaN, 0, 1}] :
           fitness_dict =
               (Sample("AMP", "1") :> SynOnlyMatrix(syn))
               @@ (Sample("AMP", "2") :> SynOnlyMatrix(syn))
               @@ (Sample("CTX", "1") :> SynOnlyMatrix([p \in Positions |-> p % 2]))
               @@ (Sample("CTX", "2") :> SynOnlyMatrix([p \in Positions |-> p % 2]))
    /\ \E cx \in CountMatrices :
           counts_dict = [s \in Range(InsertionOrder) |-> cx]
    /\ sample_order = InsertionOrder
    /\ gene \in Genes
    /\ call = [op |-> "none"]
    /\ ret = [status |-> "none"]
    /\ steps = <<>>

SpecIdentical == InitIdentical /\ [][Next]_vars

(***************************************************************************)
(* The two matrices a gaussian_drug or shish_kabob_drug call hands to the *)
(* classifier, also when the classifier fails.                            *)
(***************************************************************************)
OneDrugCall == call.op \in {"gaussian_drug", "shish_kabob_drug"}

ClassifierInput ==
    replica_frames(call.drug, counts_dict, fitness_dict, gene, call.read_threshold)

IdenticalSynOnly(df_x, df_y) ==
    /\ df_x = df_y
    /\ \A c \in DOMAIN df_x : c[2] # SYN => isnan(df_x[c])

SynValuesOf(df) == {df[c] : c \in {k \in DOMAIN df : k[2] = SYN /\ ~isnan(df[k])}}

AllFalse(mask) == \A c \in DOMAIN mask : ~mask[c]

ThreeDrugSamples == {Sample(d, r) : d \in {"AMP", "CTX", "TET"}, r \in {"1", "2"}}

RECURSIVE OrdersOf(_)
OrdersOf(S) ==
    IF S = {} THEN {<<>>}
    ELSE UNION {{<<s>> \o f : f \in OrdersOf(S \ {s})} : s \in S}

InsertionOrders ==
    {f \in OrdersOf(ThreeDrugSamples) :
        /\ \A d \in {"AMP", "CTX", "TET"} :
               \E i, j \in DOMAIN f :
                   i < j /\ f[i] = Sample(d, "1") /\ f[j] = Sample(d, "2")}

InitOrder ==
    /\ fitness_dict =
           (Sample("AMP", "1") :> MatrixOf(FitnessTables[1]))
           @@ (Sample("AMP", "2") :> MatrixOf(FitnessTables[2]))
           @@ (Sample("CTX", "1") :> MatrixOf(FitnessTables[2]))
           @@ (Sample("CTX", "2") :> MatrixOf(FitnessTables[1]))
           @@ (Sample("TET", "1") :> MatrixOf(FitnessTables[1]))
           @@ (Sample("TET", "2") :> MatrixOf(FitnessTables[3]))
    /\ counts_dict = [s \in ThreeDrugSamples |->
                         MatrixOf(CountTables[IF s = Sample("CTX", "1") THEN 2 ELSE 1])]
    /\ sample_order \in InsertionOrders
    /\ gene = CHOOSE g \in Genes : TRUE
    /\ call = [op |-> "none"]
    /\ ret = [status |-> "none"]
    /\ steps = <<>>

SpecOrder == InitOrder /\ [][Next]_vars

(***************************************************************************)
(* The names on the subplots of a figure, by subplot index, and the names *)
(* the figure is about.                                                    *)
(***************************************************************************)
IsAscending(names) ==
    \A i, j \in 1..Len(names) : i < j => Rank(names[i]) < Rank(names[j])

FigureOfSamples ==
    call.op \in {"histogram_mutation_counts", "heatmap_draw", "histogram_fitness_draw"}

FigureOfDrugs == call.op \in {"gaussian_replica_pair_draw", "shish_kabob_draw"}

PlaceOf(name, names) == Cardinality({m \in names : Rank(m) < Rank(name)})

(***************************************************************************)
(* C13.  Every figure-building function puts on its i-th subplot the i-th *)
(* name in alphabetical order, whatever the insertion order of the input  *)
(* mapping: the samples for histogram_mutation_counts, heatmap_draw and   *)
(* histogram_fitness_draw, the drugs for gaussian_replica_pair_draw and   *)
(* shish_kabob_draw, and for drug_pairs_draw the pair (column drug, row   *)
(* drug) on the axes of their places in sorted order.                     *)
(***************************************************************************)
C13_SubplotsInSortedOrder ==
    Returned =>
        /\ FigureOfSamples =>
               /\ Range(ret.subplots) = Range(sample_order)
               /\ IsAscending(ret.subplots)
        /\ FigureOfDrugs =>
               /\ Range(ret.subplots) = drugs_all(fitness_dict)
               /\ IsAscending(ret.subplots)
        /\ call.op = "drug_pairs_draw" =>
               \A i \in 1..Len(ret.subplots) :
                   ret.subplots[i].ax =
                       <<PlaceOf(ret.subplots[i].drug_y, drugs_all(fitness_dict)) - 1,
                         PlaceOf(ret.subplots[i].drug_x, drugs_all(fitness_dict))>>

(***************************************************************************)
(* What holds instead: the claim for every function but                   *)
(* histogram_mutation_counts, whose subplots follow the insertion order   *)
(* of the counts mapping.                                                  *)
(***************************************************************************)
C13_SortedButMutationCounts ==
    Returned =>
        /\ call.op # "histogram_mutation_counts" => C13_SubplotsInSortedOrder
        /\ call.op = "histogram_mutation_counts" => ret.subplots = sample_order

C13_Witness ==
    /\ call.op = "histogram_mutation_counts"
    /\ Returned
    /\ Len(ret.subplots) > 1
    /\ Rank(ret.subplots[1]) > Rank(ret.subplots[2])
    /\ ret.subplots[1] = sample_order[1]

C13_WitnessSorted ==
    /\ call.op = "drug_pairs_draw"
    /\ Returned
    /\ ~IsAscending(sample_order)
    /\ Len(ret.subplots) > 2

(***************************************************************************)
(* The steps of a per-drug call, by kind.                                 *)
(***************************************************************************)
PerDrugCall == call.op \in {"gaussian_drug", "shish_kabob_drug", "drug_pair"}

StepsOf(kind) == {i \in 1..Len(steps) : steps[i].step = kind}

(***************************************************************************)
(* C14.  In gaussian_drug, shish_kabob_drug and drug_pair the order is    *)
(* filter, classify, draw: every classifier call comes right after the    *)
(* two filter calls of its drug, made with the call's read_threshold, and *)
(* receives exactly the two matrices those filter calls returned; nothing *)
(* is drawn before every classifier call of the function (one, two for    *)
(* drug_pair) has returned its masks, and nothing is drawn by a call that *)
(* fails.                                                                  *)
(***************************************************************************)
C14_FilterThenClassifyThenDraw ==
    PerDrugCall =>
        /\ \A i \in StepsOf("classify") :
               /\ i >= 3
               /\ \A k \in {i - 2, i - 1} :
                      /\ steps[k].step = "filter"
                      /\ steps[k].out.status = "ok"
                      /\ steps[k].args[5] = call.read_threshold
               /\ steps[i].args[1] = steps[i - 2].out.value
               /\ steps[i].args[2] = steps[i - 1].out.value
        /\ \A j \in StepsOf("draw") :
               /\ Returned
               /\ Cardinality({i \in StepsOf("classify") : i < j})
                      = IF call.op = "drug_pair" THEN 2 ELSE 1
               /\ \A i \in StepsOf("classify") : i < j /\ steps[i].out.status = "ok"
               /\ \A k \in StepsOf("filter") : k < j
        /\ Returned => StepsOf("draw") # {}

C14_Witness ==
    /\ call.op = "drug_pair"
    /\ Returned
    /\ StepsOf("draw") # {}
    /\ \E i \in StepsOf("classify") :
           /\ steps[i].args[1] # fitness_dict[steps[i - 2].args[1]]
           /\ \E c \in DOMAIN steps[i].args[1] :
                  unpack(steps[i].out.value).sign_resistant[c]

(***************************************************************************)
(* C15 as the specification states it: the filter takes exactly           *)
(* (sample_id, counts_by_sample, fitness_by_sample, read_threshold), and  *)
(* its result is the same for any two Gene values.                        *)
(***************************************************************************)
GeneIndependent(i) ==
    steps[i].out.status = "ok" =>
        \A g \in Genes :
            filter_fitness_read_noise(steps[i].args[1], counts_dict, fitness_dict, g,
                                      steps[i].args[Len(steps[i].args)])
                = steps[i].out.value

Faults == {"absent_counts", "absent_fitness", "misaligned", "shape", "no_synonymous"}

Drop(d, sample) == [k \in DOMAIN d \ {sample} |-> d[k]]

RestrictTo(df, cells) == [c \in DOMAIN df \cap cells |-> df[c]]

ShortCells == {c \in Cells : c[1] < NPos}

NoSynCells == {c \in Cells : c[2] # SYN}

FaultyCounts(fault, drug, rep, cd) ==
    LET s == Sample(drug, rep)
    IN CASE fault = "absent_counts" -> Drop(cd, s)
         [] fault \in {"misaligned", "shape"} ->
                [cd EXCEPT ![s] = RestrictTo(cd[s], ShortCells)]
         [] fault = "no_synonymous" ->
                [k \in DOMAIN cd |->
                    IF k \in {Sample(drug, "1"), Sample(drug, "2")}
                    THEN RestrictTo(cd[k], NoSynCells) ELSE cd[k]]
         [] OTHER -> cd

FaultyFitness(fault, drug, rep, fd) ==
    LET s == Sample(drug, rep)
    IN CASE fault = "absent_fitness" -> Drop(fd, s)
         [] fault = "shape" -> [fd EXCEPT ![s] = RestrictTo(fd[s], ShortCells)]
         [] fault = "no_synonymous" ->
                [k \in DOMAIN fd |->
                    IF k \in {Sample(drug, "1"), Sample(drug, "2")}
                    THEN RestrictTo(fd[k], NoSynCells) ELSE fd[k]]
         [] OTHER -> fd

InitFaulty ==
    /\ \E fault \in Faults, drug \in {"AMP", "CTX"}, rep \in {"1", "2"},
          fx \in FitnessMatrices :
           /\ fitness_dict =
                  FaultyFitness(fault, drug, rep,
                      (Sample("AMP", "1") :> fx)
                      @@ (Sample("AMP", "2") :> MatrixOf(FitnessTables[2]))
                      @@ (Sample("CTX", "1") :> MatrixOf(FitnessTables[1]))
                      @@ (Sample("CTX", "2") :> MatrixOf(FitnessTables[2])))
           /\ counts_dict =
                  FaultyCounts(fault, drug, rep,
                      [s \in Range(InsertionOrder) |-> MatrixOf(CountTables[1])])
    /\ sample_order = InsertionOrder
    /\ gene \in Genes
    /\ call = [op |-> "none"]
    /\ ret = [status |-> "none"]
    /\ steps = <<>>

SpecFaulty == InitFaulty /\ [][Next]_vars

(***************************************************************************)
(* The contract violation of step i: for a call of the filter, the sample *)
(* is absent from either mapping or its two matrices do not align; for a  *)
(* call of the classifier, an input matrix has no synonymous column or    *)
(* the two matrices differ in shape.                                      *)
(***************************************************************************)
ContractViolation(i) ==
    IF steps[i].step = "filter"
    THEN LET s == steps[i].args[1]
         IN \/ s \notin DOMAIN counts_dict
            \/ s \notin DOMAIN fitness_dict
            \/ DOMAIN counts_dict[s] # DOMAIN fitness_dict[s]
    ELSE /\ steps[i].step = "classify"
         /\ \/ SYN \notin ColumnsOf(steps[i].args[1])
            \/ SYN \notin ColumnsOf(steps[i].args[2])
            \/ DOMAIN steps[i].args[1] # DOMAIN steps[i].args[2]

(***************************************************************************)
(* C16.  A call of the filter or of the classifier that violates the      *)
(* contract returns an error and nothing else (no matrix, no mask); it is *)
(* the last step of the function that made it, the function ends with     *)
(* that error, and the same call is not made a second time.               *)
(***************************************************************************)
C16_ContractViolationsFailAtOnce ==
    \A i \in 1..Len(steps) :
        ContractViolation(i) =>
            /\ steps[i].out.status = "error"
            /\ DOMAIN steps[i].out = {"status", "error"}
            /\ i = Len(steps)
            /\ ret = steps[i].out
            /\ \A j \in 1..Len(steps) \ {i} :
                   steps[j].step = steps[i].step => steps[j].args # steps[i].args

FailedAt(kind, error) ==
    /\ steps # <<>>
    /\ steps[Len(steps)].step = kind
    /\ ContractViolation(Len(steps))
    /\ ret.status = "error"
    /\ ret.error = error

C16_Witness ==
    /\ call.op = "shish_kabob_draw"
    /\ Len(steps) > 2
    /\ FailedAt("classify", "shape")

C16_WitnessLookup == FailedAt("filter", "lookup") /\ Len(steps) > 1

C16_WitnessMisaligned == FailedAt("filter", "shape")

C16_WitnessNoSynonymous == FailedAt("classify", "no_synonymous")

(***************************************************************************)
(* C17.  In shish_kabob_drug the merged matrix df holds, cell by cell,    *)
(* the value of greatest magnitude of the two filtered replicates: that   *)
(* of replicate one when |df1| > |df2|, that of replicate two when        *)
(* |df2| >= |df1| (also on a tie of opposite signs), and NaN when the     *)
(* cell is NaN in either replicate.                                        *)
(***************************************************************************)
C17_MergeKeepsGreatestMagnitude ==
    (call.op = "shish_kabob_drug" /\ Returned) =>
        \A c \in DOMAIN ret.df :
            IF isnan(ret.df1[c]) \/ isnan(ret.df2[c]) THEN isnan(ret.df[c])
            ELSE IF Abs(ret.df1[c]) > Abs(ret.df2[c]) THEN ret.df[c] = ret.df1[c]
            ELSE ret.df[c] = ret.df2[c]

C17_Witness ==
    /\ call.op = "shish_kabob_drug"
    /\ Returned
    /\ \E c \in DOMAIN ret.df :
           /\ ~isnan(ret.df1[c])
           /\ ~isnan(ret.df2[c])
           /\ ret.df1[c] = -ret.df2[c]
           /\ ret.df2[c] # 0
           /\ ret.df[c] = ret.df2[c]
    /\ \E c \in DOMAIN ret.df :
           /\ ~isnan(ret.df[c])
           /\ ret.df[c] = ret.df1[c]
           /\ ret.df[c] # ret.df2[c]
    /\ \E c \in DOMAIN ret.df :
           /\ isnan(ret.df[c])
           /\ ~isnan(ret.df1[c])

(***************************************************************************)
(* C18.  Every position that shish_kabob_drug selects for display         *)
(* (sign_positions) has at least one cell that is not NaN in the matrix   *)
(* that is plotted (df_masked_plot): no displayed position is an          *)
(* all-missing row or column.                                              *)
(***************************************************************************)
PlottedCellsOf(p) == {c \in DOMAIN ret.df_masked_plot : c[1] = p}

C18_DisplayedPositionsHaveData ==
    (call.op = "shish_kabob_drug" /\ Returned) =>
        \A p \in ret.sign_positions :
            \E c \in PlottedCellsOf(p) : ~isnan(ret.df_masked_plot[c])

(***************************************************************************)
(* A displayed position whose only significant cell outside the stop      *)
(* column is the synonymous one: its row of df_masked_plot is all NaN.    *)
(***************************************************************************)
C18_Witness ==
    /\ call.op = "shish_kabob_drug"
    /\ Returned
    /\ \E p \in ret.sign_positions :
           /\ PlottedCellsOf(p) # {}
           /\ \A c \in PlottedCellsOf(p) : isnan(ret.df_masked_plot[c])
           /\ ret.sign_sensitive[<<p, SYN>>] \/ ret.sign_resistant[<<p, SYN>>]
           /\ ~isnan(ret.df[<<p, SYN>>])

(***************************************************************************)
(* The figure after relabel_axis: its heatmap axes, the cursor cells      *)
(* (x, y) inside the heatmap of an axes, what format_coord of axes i      *)
(* returns there, and what it would return from an array of given values. *)
(***************************************************************************)
Relabelled == call.op = "relabel_axis" /\ ret.status = "ok"

HeatmapAxes == 1..Len(ret.arrays)

CursorCells(i) ==
    (0..(ret.arrays[i].shape[2] - 1)) \X (0..(ret.arrays[i].shape[1] - 1))

Hover(i, xy) == format_coord(call.orientation, ret.data[i], xy[1], xy[2])

HoverOf(flat, xy) ==
    format_coord(call.orientation,
                 [shape |-> <<ret.rows, ret.cols>>, flat |-> flat], xy[1], xy[2])

(***************************************************************************)
(* C19.  After relabel_axis, format_coord of each heatmap axes reports    *)
(* what it computes from that axes' own heatmap array.                    *)
(***************************************************************************)
C19_HoverReportsOwnAxes ==
    Relabelled =>
        \A i \in HeatmapAxes : \A xy \in CursorCells(i) :
            Hover(i, xy) = HoverOf(ret.arrays[i].flat, xy)

(***************************************************************************)
(* A format_coord that reports, on an axes that is not the last, a value  *)
(* of the last axes that differs from the axes' own.                      *)
(***************************************************************************)
C19_Witness ==
    /\ Relabelled
    /\ \E i \in HeatmapAxes : \E xy \in CursorCells(i) :
           /\ i < Len(ret.arrays)
           /\ Hover(i, xy).status = "ok"
           /\ HoverOf(ret.arrays[i].flat, xy).status = "ok"
           /\ Hover(i, xy) = HoverOf(ret.arrays[Len(ret.arrays)].flat, xy)
           /\ Hover(i, xy).value # HoverOf(ret.arrays[i].flat, xy).value

(***************************************************************************)
(* C20.  In horizontal orientation, for every cursor cell (x the position *)
(* index, y the residue index) inside the heatmap, data[y, x] is inside   *)
(* the array reshaped to (rows, cols) and is the cell the heatmap shows   *)
(* at row y and column x.                                                  *)
(***************************************************************************)
Shown(i, xy) ==
    getitem([shape |-> ret.arrays[i].shape, flat |-> ret.data[i].flat], xy[2], xy[1])

C20_HorizontalHoverAddressesPlottedCell ==
    (Relabelled /\ call.orientation = "horizontal") =>
        \A i \in HeatmapAxes : \A xy \in CursorCells(i) :
            /\ Hover(i, xy).status = "ok"
            /\ Hover(i, xy).value = Shown(i, xy).value

(***************************************************************************)
(* A horizontal figure of a gene with more positions than residues: the   *)
(* cursor is inside the heatmap and format_coord raises IndexError; at    *)
(* another cell it returns the value of a different cell.                 *)
(***************************************************************************)
C20_Witness ==
    /\ Relabelled
    /\ call.orientation = "horizontal"
    /\ ret.rows > ret.cols
    /\ \E i \in HeatmapAxes : \E xy \in CursorCells(i) :
           /\ Hover(i, xy).status = "error"
           /\ Hover(i, xy).error = "index"
    /\ \E i \in HeatmapAxes : \E xy \in CursorCells(i) :
           /\ Hover(i, xy).status = "ok"
           /\ Hover(i, xy).value # Shown(i, xy).value

C20_WitnessVertical ==
    /\ Relabelled
    /\ call.orientation = "vertical"
    /\ ret.rows > ret.cols
    /\ \A i \in HeatmapAxes : \A xy \in CursorCells(i) :
           /\ Hover(i, xy).status = "ok"
           /\ Hover(i, xy).value = Shown(i, xy).value

(***************************************************************************)
(* The grid of drug_pairs_draw: the number of drug names, the cells of    *)
(* the (n - 1) x (n - 1) grid, the cells drug_pair drew on and the cells  *)
(* removed.  GridError: plt.subplots or the indexing of axs failed.       *)
(***************************************************************************)
NumDrugs == Cardinality(drugs_all(fitness_dict))

GridCells(rows, cols) == (0..(rows - 1)) \X (0..(cols - 1))

DrawnCells == {ret.subplots[i].ax : i \in 1..Len(ret.subplots)}

RemovedCells == {ret.removed[j] : j \in 1..Len(ret.removed)}

GridError ==
    /\ ret.status = "error"
    /\ ret.error \in {"value", "not_subscriptable", "no_flat", "index"}

PairsGrid ==
    /\ ret.rows = NumDrugs - 1
    /\ ret.cols = NumDrugs - 1
    /\ \A x, y \in drugs_all(fitness_dict) :
           Rank(x) < Rank(y) =>
               Cardinality({i \in 1..Len(ret.subplots) :
                   /\ ret.subplots[i].drug_x = x
                   /\ ret.subplots[i].drug_y = y
                   /\ ret.subplots[i].ax =
                          <<PlaceOf(y, drugs_all(fitness_dict)) - 1,
                            PlaceOf(x, drugs_all(fitness_dict))>>}) = 1
    /\ Len(ret.subplots) = (NumDrugs * (NumDrugs - 1)) \div 2
    /\ Cardinality(DrawnCells) = Len(ret.subplots)
    /\ Cardinality(RemovedCells) = Len(ret.removed)
    /\ DrawnCells \cap RemovedCells = {}
    /\ DrawnCells \cup RemovedCells = GridCells(ret.rows, ret.cols)

(***************************************************************************)
(* C21.  For n >= 2 drug names drug_pairs_draw builds an (n - 1) x        *)
(* (n - 1) grid: every unordered pair of distinct drugs is drawn exactly  *)
(* once, on the cell (row - 1, col) of its places in sorted order, every  *)
(* other cell is removed exactly once, no cell is both drawn and removed  *)
(* or left untouched, and no index falls outside the grid.                *)
(***************************************************************************)
C21_PairsGridCoveredOnce ==
    (call.op = "drug_pairs_draw" /\ NumDrugs >= 2) =>
        /\ ~GridError
        /\ Returned => PairsGrid

(***************************************************************************)
(* What holds instead: the grid is as stated for three drug names or      *)
(* more; with two, plt.subplots(1, 1) returns one Axes and axs[0, 0]      *)
(* raises TypeError before anything is drawn.                             *)
(***************************************************************************)
C21_PairsGridFromThreeDrugs ==
    call.op = "drug_pairs_draw" =>
        /\ NumDrugs >= 3 => (~GridError /\ (Returned => PairsGrid))
        /\ NumDrugs = 2 =>
               /\ ret = [status |-> "error", error |-> "not_subscriptable"]
               /\ steps = <<>>

C21_Witness ==
    /\ call.op = "drug_pairs_draw"
    /\ NumDrugs = 2
    /\ ret.status = "error"
    /\ ret.error = "not_subscriptable"

C21_WitnessThreeDrugs ==
    /\ call.op = "drug_pairs_draw"
    /\ NumDrugs = 3
    /\ Returned
    /\ PairsGrid
    /\ RemovedCells = {<<0, 1>>}

(***************************************************************************)
(* The grid of gaussian_replica_pair_draw for n drug names, and what the  *)
(* removal loop leaves of its rows * cols axes.                           *)
(***************************************************************************)
GridOf(n) == replica_grid(n)

GridAxes(n) == [k \in 1..(GridOf(n).rows * GridOf(n).cols) |-> k]

GridFits(n) ==
    /\ GridOf(n).rows * GridOf(n).cols >= n
    /\ subplots_ndim(GridOf(n).rows, GridOf(n).cols) # 0
    /\ remove_trailing(GridAxes(n), <<>>, n).axes = [i \in 1..n |-> i]
    /\ Range(remove_trailing(GridAxes(n), <<>>, n).removed)
           = (1..Len(GridAxes(n))) \ (1..n)

(***************************************************************************)
(* C22.  For every number n >= 2 of drug names gaussian_replica_pair_draw *)
(* computes a grid with rows * cols >= n, draws each drug on a distinct   *)
(* axes axs.flat[i], and the loop removing trailing axes ends with        *)
(* exactly n axes in the figure without removing an axes a drug was drawn *)
(* on.                                                                     *)
(***************************************************************************)
C22_ReplicaGridKeepsDrawnAxes ==
    /\ \A n \in 2..MaxPlots : GridFits(n)
    /\ (call.op = "gaussian_replica_pair_draw" /\ NumDrugs >= 2) =>
           /\ ~GridError
           /\ Returned =>
                  /\ ret.rows * ret.cols >= NumDrugs
                  /\ Len(ret.drawn) = NumDrugs
                  /\ Range(ret.subplots) = drugs_all(fitness_dict)
                  /\ Cardinality(Range(ret.drawn)) = NumDrugs
                  /\ Range(ret.drawn) \subseteq 1..(ret.rows * ret.cols)
                  /\ Len(ret.axes) = NumDrugs
                  /\ Range(ret.axes) = Range(ret.drawn)
                  /\ Range(ret.removed) \cap Range(ret.drawn) = {}
                  /\ Len(ret.removed) = ret.rows * ret.cols - NumDrugs

C22_Witness ==
    /\ call.op = "gaussian_replica_pair_draw"
    /\ Returned
    /\ NumDrugs = 3
    /\ ret.rows = 2
    /\ ret.cols = 2
    /\ ret.removed = <<4>>
    /\ ret.axes = <<1, 2, 3>>

====
